---------------------------- MODULE Spec2Model ----------------------------
(***************************************************************************)
(* gherkin-lite: a Gherkin-style naming layer over the Playwright test     *)
(* runner.  The model follows the current build, dist/gherkinSyntax.js     *)
(* (label, given/when/then/and/but, feature, makeScenario and its          *)
(* skip/only/todo variants), and, for the scenario-outline expansion that  *)
(* the current build no longer carries, the last source revision that      *)
(* defines it (scenarioOutline and scenarioOutlineWithContext).            *)
(*                                                                         *)
(* A JavaScript string is a sequence of one-character strings, so that     *)
(* trimming, concatenation and prefixes are computed and not assumed.      *)
(* The test source is a script of calls; every action executes the call at *)
(* the head of the script against the host runner, whose primitives        *)
(* (test, test.skip, test.only, test.describe, test.step) record what they *)
(* were handed.                                                            *)
(***************************************************************************)
EXTENDS Integers, Sequences, FiniteSets, TLC

(* ------------------------------ bounds -------------------------------- *)
\* longest description / outline title drawn as input
MaxLen == 3
\* longest tag list drawn as input
MaxTags == 2
\* longest example list drawn as input
MaxExamples == 2
\* most fields in one example record
MaxFields == 2
\* most callbacks the host executes in one behaviour
MaxRuns == 1
\* deepest nesting of a step inside the function of a step
MaxDepth == 1
MaxCalls == 3

(* ------------------------------ strings ------------------------------- *)
\* characters of the descriptions drawn as input
DescChars == {" ", "a"}
\* what String.prototype.trim removes (the part of it the inputs can hold)
WhiteSpace == {" ", "\t", "\n"}

StrUpTo(S, n) == UNION {[1..k -> S] : k \in 0..n}
Descriptions == StrUpTo(DescChars, MaxLen)

KwGiven == <<"G", "i", "v", "e", "n">>
KwWhen == <<"W", "h", "e", "n">>
KwThen == <<"T", "h", "e", "n">>
KwAnd == <<"A", "n", "d">>
KwBut == <<"B", "u", "t">>
KwFeature == <<"F", "e", "a", "t", "u", "r", "e", " ", ":">>
KwScenario == <<"S", "c", "e", "n", "a", "r", "i", "o", " ", ":">>
MarkSkipped == <<"[", "S", "K", "I", "P", "P", "E", "D", "]", " ">>
MarkOnly == <<"[", "O", "N", "L", "Y", "]", " ">>
MarkTodo == <<"[", "T", "O", "D", "O", "]", " ">>
TagsLead == <<" ", "-", " ", "T", "a", "g", "s", ":", " ">>
OutlineLead == <<"S", "c", "e", "n", "a", "r", "i", "o", " ", "O", "u", "t", "l", "i", "n", "e", ":", " ">>
OutlineBar == <<" ", "|", " ">>

\* String.prototype.trim: whitespace is dropped from both ends, one
\* character at a time, and nothing inside is touched
RECURSIVE TrimStart(_)
TrimStart(s) ==
    IF s = <<>> THEN <<>>
    ELSE IF Head(s) \in WhiteSpace THEN TrimStart(Tail(s)) ELSE s

RECURSIVE TrimEnd(_)
TrimEnd(s) ==
    IF s = <<>> THEN <<>>
    ELSE IF s[Len(s)] \in WhiteSpace THEN TrimEnd(SubSeq(s, 1, Len(s) - 1)) ELSE s

trim(s) == TrimEnd(TrimStart(s))

\* Array.prototype.join
RECURSIVE join(_, _)
join(xs, sep) ==
    IF xs = <<>> THEN <<>>
    ELSE IF Len(xs) = 1 THEN xs[1]
    ELSE xs[1] \o sep \o join(Tail(xs), sep)

\* a label without the trim, as the revisions before `label` built it
labelUntrimmed(k, d) == k \o <<" ">> \o d

\* const label = (k, d) => `${k} ${d.trim()}`
label(k, d) == k \o <<" ">> \o trim(d)

(* --------------------------- JavaScript values ------------------------ *)
\* the caller's functions (one would throw if it were invoked), the results the host hands back, and the
\* execution contexts the host passes to a test body
Fns == {"fnOk", "fnThrows"}
HostResults == {"r1", "r2"}
Contexts ==
    {[page |-> p, context |-> "context1", browser |-> "browser1"] : p \in {"page1", "page2"}}
\* what a function called with no context argument receives in its place
NoContext == [page |-> "none", context |-> "none", browser |-> "none"]

\* a value in an argument position: undefined, a function, or an options
\* record with or without a tags field
Undefined == [type |-> "undefined", fn |-> "none", hasTags |-> FALSE, tags |-> <<>>]
Function(f) == [type |-> "function", fn |-> f, hasTags |-> FALSE, tags |-> <<>>]
Options(t) == [type |-> "object", fn |-> "none", hasTags |-> TRUE, tags |-> t]
EmptyOptions == [type |-> "object", fn |-> "none", hasTags |-> FALSE, tags |-> <<>>]

\* what the host is handed as a callback: the caller's function itself,
\* undefined, or a closure built by this layer
NoExample == <<>>
CallerCallback(f) == [kind |-> "caller", fn |-> f, example |-> NoExample]
UndefinedCallback == [kind |-> "undefined", fn |-> "none", example |-> NoExample]
TodoCallback == [kind |-> "todo", fn |-> "none", example |-> NoExample]
OutlineCallback(f, e) == [kind |-> "outline", fn |-> f, example |-> e]
OutlineContextCallback(f, e) == [kind |-> "outlineWithContext", fn |-> f, example |-> e]

\* const fn = isFn ? fnOrOptions : undefined: the host is handed the
\* caller's own function, or undefined
AsCallback(v) ==
    IF v.type = "function" THEN CallerCallback(v.fn) ELSE UndefinedCallback

(* ------------------------------- state -------------------------------- *)
VARIABLES
    script,   \* the calls the test source has still to make, in order
    calls,    \* the calls made so far, each with what it returned
    host,     \* what the host primitives were handed, in order
    runs      \* the callbacks the host has executed, in order

vars == <<script, calls, host, runs>>

\* a call of the test source; body is what the function passed to a step or
\* to feature calls in turn when the host invokes it
Call(ep, d, a2, a3, ex) ==
    [ep |-> ep, description |-> d, a2 |-> a2, a3 |-> a3, examples |-> ex,
     body |-> <<>>]

\* a call whose callback is a function of the test source that makes the
\* calls of body, awaiting each
WithBody(ep, d, body) ==
    [Call(ep, d, Function("fnSteps"), Undefined, <<>>) EXCEPT !.body = body]

HostCall(prim, title, cb, by) ==
    [prim |-> prim, title |-> title, cb |-> cb, by |-> by]

\* an execution of a callback by the host (by is "layer" for an invocation
\* this layer would make itself: the code holds none)
Run(reg, fn, example, ctx, fixme) ==
    [reg |-> reg, fn |-> fn, example |-> example, ctx |-> ctx, fixme |-> fixme,
     by |-> "host"]

\* the call at the head of the script is a call of entry point ep
Next1(ep) == script # <<>> /\ Head(script).ep = ep

\* the call hands the host the calls hs and returns r; hr is the host result
\* its return statement had in hand ("none" where it returns no host result)
\* a layer that puts the newest host calls ahead of the earlier ones
RecordNewestFirst(r, hs, hr) ==
    /\ calls' = Append(calls, [req |-> Head(script), ret |-> r, made |-> Len(hs),
                               hostRet |-> hr])
    /\ host' = hs \o host

Record(r, hs, hr) ==
    /\ calls' = Append(calls, [req |-> Head(script), ret |-> r, made |-> Len(hs),
                               hostRet |-> hr])
    /\ host' = host \o hs

Finish(r, hs, hr) ==
    /\ Record(r, hs, hr)
    /\ script' = Tail(script)

(* ------------------------------- steps -------------------------------- *)
\* what an awaiting caller observes of a promise rejected with the error
\* the throwing function throws
Rejection == "rejected with the error of fnThrows"

\* the function passed in call c throws: it is the throwing function, or it
\* awaits a step whose function throws
RECURSIVE Throws(_)
Throws(c) ==
    \/ c.a2.fn = "fnThrows"
    \/ \E k \in DOMAIN c.body : Throws(c.body[k])

\* test.step(title, fn) of the host: fn is run at once, and the promise
\* handed back settles as fn does (r stands for a fulfilled one)
hostStep(c, r) == IF Throws(c) THEN Rejection ELSE r

\* a step wrapper that catches the failure of its step
stepReturnCatches(hostResult) ==
    IF hostResult = Rejection THEN "undefined" ELSE hostResult

\* return test.step(...): the host's promise is the wrapper's result
stepReturn(hostResult) == hostResult

\* the titles of the step all prefixed with what the host was handed last,
\* as a label kept in a shared buffer would be
labelKeepsEarlierTitle(k, d) ==
    (IF host = <<>> THEN <<>> ELSE host[Len(host)].title \o <<" ">>)
    \o k \o <<" ">> \o trim(d)

\* label(K, description) as a step entry point calls it
stepLabel(k, d) == label(k, d)

\* given/when/then/and/but: return test.step(label(K, description), fn).
\* The host step primitive runs fn at once: the calls fn makes come next,
\* ahead of the rest of the test source, and nothing follows a step whose
\* function has thrown, the caller awaiting it.
StepCall(ep, kw) ==
    /\ Next1(ep)
    /\ \E r \in HostResults :
        LET c == Head(script)
            h == HostCall("step", stepLabel(kw, c.description), AsCallback(c.a2),
                          Len(calls) + 1)
        IN /\ Record(stepReturn(hostStep(c, r)), <<h>>, hostStep(c, r))
           /\ runs' = Append(runs, Run(Len(host) + 1, c.a2.fn, NoExample, NoContext, FALSE))
           /\ script' = IF c.a2.fn = "fnThrows" THEN <<>> ELSE c.body \o Tail(script)

given == StepCall("given", KwGiven)
when == StepCall("when", KwWhen)
then == StepCall("then", KwThen)
and == StepCall("and", KwAnd)
but == StepCall("but", KwBut)

StepEntryPoints == {"given", "when", "then", "and", "but"}
StepCalls ==
    {Call(ep, d, Function(f), Undefined, <<>>) :
        ep \in StepEntryPoints, d \in Descriptions, f \in Fns}

NoCalls == calls = <<>> /\ host = <<>> /\ runs = <<>>

InitSteps == script \in {<<c>> : c \in StepCalls} /\ NoCalls
NextSteps == given \/ when \/ then \/ and \/ but
SpecSteps == InitSteps /\ [][NextSteps]_vars

\* steps whose functions call steps, to a depth of MaxDepth, followed by a
\* sibling step
NestedDescriptions == {<<"a">>, <<"a", "a", " ">>}
NestedEntryPoints == {"given", "and"}
RECURSIVE NestedSteps(_)
NestedSteps(depth) ==
    LET leaves == {Call(ep, d, Function("fnOk"), Undefined, <<>>) :
                      ep \in NestedEntryPoints, d \in NestedDescriptions}
    IN IF depth = 0 THEN leaves
       ELSE leaves \cup
            {WithBody(ep, d, <<b>>) :
                ep \in NestedEntryPoints, d \in NestedDescriptions,
                b \in NestedSteps(depth - 1)}

InitNested ==
    /\ script \in {<<c, sib>> : c \in NestedSteps(MaxDepth), sib \in NestedSteps(0)}
    /\ NoCalls
SpecNested == InitNested /\ [][NextSteps]_vars

(* --------------------------- step and hooks --------------------------- *)
\* a title put through label's trim on its way to the host
passThroughTitleTrimmed(description) == trim(description)

\* test.step(description, fn), test.beforeEach(description, fn), ...: the
\* description is the title
passThroughTitle(description) == description

\* an async function ending in `return await p` settles as p settles
awaited(hostResult) == hostResult

\* step(description, fn): return await test.step(description, fn); the host
\* runs fn at once, and the steps fn calls come next
step ==
    /\ Next1("step")
    /\ \E r \in HostResults :
        LET c == Head(script)
            h == HostCall("step", passThroughTitle(c.description), AsCallback(c.a2),
                          Len(calls) + 1)
        IN /\ Record(awaited(hostStep(c, r)), <<h>>, hostStep(c, r))
           /\ runs' = Append(runs, Run(Len(host) + 1, c.a2.fn, NoExample, NoContext, FALSE))
           /\ script' = IF c.a2.fn = "fnThrows" THEN <<>> ELSE c.body \o Tail(script)

\* one hook declaration: the single host call, whose result is returned;
\* the host keeps fn for later
HookCall(ep, prim) ==
    /\ Next1(ep)
    /\ \E r \in HostResults :
        LET c == Head(script)
        IN Finish(r, <<HostCall(prim, passThroughTitle(c.description),
                                AsCallback(c.a2), Len(calls) + 1)>>, r)
    /\ UNCHANGED runs

before == HookCall("before", "beforeEach")
after == HookCall("after", "afterEach")
beforeAll == HookCall("beforeAll", "beforeAll")
afterAll == HookCall("afterAll", "afterAll")

HookEntryPoints == {"before", "after", "beforeAll", "afterAll"}

\* a hook declared, then a step called, with one description and function
InitPassThrough ==
    /\ script \in {<<Call(h, d, Function(f), Undefined, <<>>),
                     Call("step", d, Function(f), Undefined, <<>>)>> :
                        h \in HookEntryPoints, d \in Descriptions, f \in Fns}
    /\ NoCalls
NextPassThrough ==
    \/ step
    \/ before
    \/ after
    \/ beforeAll
    \/ afterAll
SpecPassThrough == InitPassThrough /\ [][NextPassThrough]_vars

(* ------------------------------- feature ------------------------------ *)
\* what the caller observes of a call that throws the error of the
\* throwing function
Thrown == "throws the error of fnThrows"

\* test.describe(title, fn) of the host: fn is called at once, to collect the
\* tests it declares, and what it throws comes out of describe
hostDescribe(c, r) == IF Throws(c) THEN Thrown ELSE r

\* feature registering a test, as the first revision did
featureRegistrationAsTest(description, fn, by) ==
    HostCall("test", label(KwFeature, description), AsCallback(fn), by)

\* test.describe(label('Feature :', `${description}`), fn)
featureRegistration(description, fn, by) ==
    HostCall("describe", label(KwFeature, description), AsCallback(fn), by)

\* feature(description, fn): the one call of the host's grouping primitive,
\* whose result is returned; the calls fn makes when the host calls it come
\* next in the test source
feature ==
    /\ Next1("feature")
    /\ \E r \in HostResults :
        LET c == Head(script)
        IN /\ Record(hostDescribe(c, r),
                     <<featureRegistration(c.description, c.a2, Len(calls) + 1)>>,
                     hostDescribe(c, r))
           /\ runs' = Append(runs, Run(Len(host) + 1, c.a2.fn, NoExample, NoContext, FALSE))
           /\ script' = IF c.a2.fn = "fnThrows" THEN <<>> ELSE c.body \o Tail(script)

(* ------------------------------ scenarios ----------------------------- *)
\* the tag strings drawn as input: plain tags, and one that ends in a blank
TagPool == {<<"@", "a">>, <<"@", "b">>, <<"@", "a", " ">>}
TagLists == StrUpTo(TagPool, MaxTags)

\* options?.tags ? ` - Tags: ${options.tags.join(' ')}` : ''
\* (an array, empty or not, is truthy; undefined is not)
tagString(options) ==
    IF options.type = "object" /\ options.hasTags
    THEN TagsLead \o join(options.tags, <<" ">>)
    ELSE <<>>

\* const title = label('Scenario :', `${description}${tagString}`)
scenarioTitle(description, options) ==
    label(KwScenario, description \o tagString(options))

\* makeScenario with the skip branch missing: a skip call falls through to
\* the plain registration
makeScenarioSkipFallsThrough(modifier, description, fnOrOptions, maybeOptions, by) ==
    LET isFn == fnOrOptions.type = "function"
        fn == IF isFn THEN fnOrOptions ELSE Undefined
        options == IF isFn THEN maybeOptions ELSE fnOrOptions
        title == scenarioTitle(description, options)
    IN  IF modifier = "only"
            THEN HostCall("only", MarkOnly \o title, AsCallback(fn), by)
        ELSE IF modifier = "todo"
            THEN HostCall("test", MarkTodo \o title, TodoCallback, by)
        ELSE HostCall("test", title, AsCallback(fn), by)

\* makeScenario with the todo branch handing the caller's function on
makeScenarioTodoKeepsFn(modifier, description, fnOrOptions, maybeOptions, by) ==
    LET isFn == fnOrOptions.type = "function"
        fn == IF isFn THEN fnOrOptions ELSE Undefined
        options == IF isFn THEN maybeOptions ELSE fnOrOptions
        title == scenarioTitle(description, options)
    IN  IF modifier = "skip"
            THEN HostCall("skip", MarkSkipped \o title, AsCallback(fn), by)
        ELSE IF modifier = "only"
            THEN HostCall("only", MarkOnly \o title, AsCallback(fn), by)
        ELSE IF modifier = "todo"
            THEN HostCall("test", MarkTodo \o title, AsCallback(fn), by)
        ELSE HostCall("test", title, AsCallback(fn), by)

\* makeScenario with the only branch calling the standard registration
makeScenarioOnlyAsTest(modifier, description, fnOrOptions, maybeOptions, by) ==
    LET isFn == fnOrOptions.type = "function"
        fn == IF isFn THEN fnOrOptions ELSE Undefined
        options == IF isFn THEN maybeOptions ELSE fnOrOptions
        title == scenarioTitle(description, options)
    IN  IF modifier = "skip"
            THEN HostCall("skip", MarkSkipped \o title, AsCallback(fn), by)
        ELSE IF modifier = "only"
            THEN HostCall("test", MarkOnly \o title, AsCallback(fn), by)
        ELSE IF modifier = "todo"
            THEN HostCall("test", MarkTodo \o title, TodoCallback, by)
        ELSE HostCall("test", title, AsCallback(fn), by)

\* makeScenario with the only marker put after the title
makeScenarioMarkerLast(modifier, description, fnOrOptions, maybeOptions, by) ==
    LET isFn == fnOrOptions.type = "function"
        fn == IF isFn THEN fnOrOptions ELSE Undefined
        options == IF isFn THEN maybeOptions ELSE fnOrOptions
        title == scenarioTitle(description, options)
    IN  IF modifier = "skip"
            THEN HostCall("skip", MarkSkipped \o title, AsCallback(fn), by)
        ELSE IF modifier = "only"
            THEN HostCall("only", title \o <<" ">> \o MarkOnly, AsCallback(fn), by)
        ELSE IF modifier = "todo"
            THEN HostCall("test", MarkTodo \o title, TodoCallback, by)
        ELSE HostCall("test", title, AsCallback(fn), by)

\* makeScenario reading the options from the third argument in every call shape
makeScenarioOptionsAlwaysThird(modifier, description, fnOrOptions, maybeOptions, by) ==
    LET isFn == fnOrOptions.type = "function"
        fn == IF isFn THEN fnOrOptions ELSE Undefined
        options == maybeOptions
        title == scenarioTitle(description, options)
    IN  IF modifier = "skip"
            THEN HostCall("skip", MarkSkipped \o title, AsCallback(fn), by)
        ELSE IF modifier = "only"
            THEN HostCall("only", MarkOnly \o title, AsCallback(fn), by)
        ELSE IF modifier = "todo"
            THEN HostCall("test", MarkTodo \o title, TodoCallback, by)
        ELSE HostCall("test", title, AsCallback(fn), by)

\* makeScenario putting a function of its own in the place of a missing one
makeScenarioDefaultsCallback(modifier, description, fnOrOptions, maybeOptions, by) ==
    LET isFn == fnOrOptions.type = "function"
        fn == IF isFn THEN fnOrOptions ELSE Function("fnOk")
        options == IF isFn THEN maybeOptions ELSE fnOrOptions
        title == scenarioTitle(description, options)
    IN  IF modifier = "skip"
            THEN HostCall("skip", MarkSkipped \o title, AsCallback(fn), by)
        ELSE IF modifier = "only"
            THEN HostCall("only", MarkOnly \o title, AsCallback(fn), by)
        ELSE IF modifier = "todo"
            THEN HostCall("test", MarkTodo \o title, TodoCallback, by)
        ELSE HostCall("test", title, AsCallback(fn), by)

\* makeScenario handing the host a closure that calls the function with no
\* argument
makeScenarioWrapsFn(modifier, description, fnOrOptions, maybeOptions, by) ==
    LET isFn == fnOrOptions.type = "function"
        fn == IF isFn THEN fnOrOptions ELSE Undefined
        options == IF isFn THEN maybeOptions ELSE fnOrOptions
        title == scenarioTitle(description, options)
        wrapper == IF isFn THEN OutlineCallback(fn.fn, NoExample) ELSE UndefinedCallback
    IN  IF modifier = "skip"
            THEN HostCall("skip", MarkSkipped \o title, wrapper, by)
        ELSE IF modifier = "only"
            THEN HostCall("only", MarkOnly \o title, wrapper, by)
        ELSE IF modifier = "todo"
            THEN HostCall("test", MarkTodo \o title, TodoCallback, by)
        ELSE HostCall("test", title, wrapper, by)

\* makeScenario with a todo branch that looks for its options in the third
\* argument only
makeScenarioTodoOptionsThird(modifier, description, fnOrOptions, maybeOptions, by) ==
    LET isFn == fnOrOptions.type = "function"
        fn == IF isFn THEN fnOrOptions ELSE Undefined
        options == IF isFn THEN maybeOptions ELSE fnOrOptions
        title == scenarioTitle(description, options)
    IN  IF modifier = "skip"
            THEN HostCall("skip", MarkSkipped \o title, AsCallback(fn), by)
        ELSE IF modifier = "only"
            THEN HostCall("only", MarkOnly \o title, AsCallback(fn), by)
        ELSE IF modifier = "todo"
            THEN HostCall("test", MarkTodo \o scenarioTitle(description, maybeOptions),
                          TodoCallback, by)
        ELSE HostCall("test", title, AsCallback(fn), by)

\* makeScenario with the modifier kept in a variable the four entry points
\* share: a call made after scenario.skip still sees 'skip'
makeScenarioSharesModifier(modifier, description, fnOrOptions, maybeOptions, by) ==
    LET isFn == fnOrOptions.type = "function"
        fn == IF isFn THEN fnOrOptions ELSE Undefined
        options == IF isFn THEN maybeOptions ELSE fnOrOptions
        title == scenarioTitle(description, options)
        shared == IF calls # <<>> /\ calls[Len(calls)].req.ep = "scenario.skip"
                  THEN "skip" ELSE modifier
    IN  IF shared = "skip"
            THEN HostCall("skip", MarkSkipped \o title, AsCallback(fn), by)
        ELSE IF shared = "only"
            THEN HostCall("only", MarkOnly \o title, AsCallback(fn), by)
        ELSE IF shared = "todo"
            THEN HostCall("test", MarkTodo \o title, TodoCallback, by)
        ELSE HostCall("test", title, AsCallback(fn), by)

\* the body of the function makeScenario(modifier) returns: the host
\* primitive it calls, with the title and the callback it hands over
makeScenario(modifier, description, fnOrOptions, maybeOptions, by) ==
    LET isFn == fnOrOptions.type = "function"
        fn == IF isFn THEN fnOrOptions ELSE Undefined
        options == IF isFn THEN maybeOptions ELSE fnOrOptions
        title == scenarioTitle(description, options)
    IN  IF modifier = "skip"
            THEN HostCall("skip", MarkSkipped \o title, AsCallback(fn), by)
        ELSE IF modifier = "only"
            THEN HostCall("only", MarkOnly \o title, AsCallback(fn), by)
        ELSE IF modifier = "todo"
            THEN HostCall("test", MarkTodo \o title, TodoCallback, by)
        ELSE HostCall("test", title, AsCallback(fn), by)

\* a scenario call that makes the host call and returns nothing
scenarioReturnsNothing(hostResult) == "undefined"

\* return test.skip(...) / return test.only(...) / return test(...)
scenarioReturn(hostResult) == hostResult

\* one call of scenario / scenario.skip / scenario.only / scenario.todo:
\* the single host call, whose result is returned
ScenarioCall(ep, modifier) ==
    /\ Next1(ep)
    /\ \E r \in HostResults :
        LET c == Head(script)
        IN Finish(scenarioReturn(r),
                  <<makeScenario(modifier, c.description, c.a2, c.a3,
                                 Len(calls) + 1)>>, r)
    /\ UNCHANGED runs

\* baseScenario = makeScenario(); .skip, .only, .todo = makeScenario('skip' ...)
scenario == ScenarioCall("scenario", "none")
scenarioSkip == ScenarioCall("scenario.skip", "skip")
scenarioOnly == ScenarioCall("scenario.only", "only")
scenarioTodo == ScenarioCall("scenario.todo", "todo")

\* the host executes a registered test whose callback is the caller's own
\* function: the function receives the host's context
RunCallerCallback ==
    /\ script = <<>>
    /\ Len(runs) < MaxRuns
    /\ \E i \in DOMAIN host, ctx \in Contexts :
        /\ host[i].prim \in {"test", "only"}
        /\ host[i].cb.kind = "caller"
        /\ runs' = Append(runs, Run(i, host[i].cb.fn, NoExample, ctx, FALSE))
    /\ UNCHANGED <<script, calls, host>>

\* the callback of scenario.todo with an empty body
RunTodoCallbackDoesNothing ==
    /\ script = <<>>
    /\ Len(runs) < MaxRuns
    /\ \E i \in DOMAIN host, ctx \in Contexts :
        /\ host[i].prim \in {"test", "only"}
        /\ host[i].cb.kind = "todo"
        /\ runs' = Append(runs, Run(i, "none", NoExample, ctx, FALSE))
    /\ UNCHANGED <<script, calls, host>>

\* the host executes the callback scenario.todo registered:
\* async () => { test.fixme(true, 'Test not implemented yet'); }
RunTodoCallback ==
    /\ script = <<>>
    /\ Len(runs) < MaxRuns
    /\ \E i \in DOMAIN host, ctx \in Contexts :
        /\ host[i].prim \in {"test", "only"}
        /\ host[i].cb.kind = "todo"
        /\ runs' = Append(runs, Run(i, "none", NoExample, ctx, TRUE))
    /\ UNCHANGED <<script, calls, host>>

ScenarioEntryPoints == {"scenario", "scenario.skip", "scenario.only", "scenario.todo"}
OptionValues == {Undefined, EmptyOptions} \cup {Options(t) : t \in TagLists}
\* the call shapes: (description, fn, options?) and (description, options?, x)
ScenarioArgs ==
    {<<Function(f), o>> : f \in Fns, o \in OptionValues}
    \cup {<<o, x>> : o \in OptionValues, x \in {Undefined, Options(<<<<"@", "b">>>>)}}
ScenarioCalls ==
    {Call(ep, d, a[1], a[2], <<>>) :
        ep \in ScenarioEntryPoints, d \in Descriptions, a \in ScenarioArgs}

InitScenario == script \in {<<c>> : c \in ScenarioCalls} /\ NoCalls
NextScenario ==
    \/ scenario
    \/ scenarioSkip
    \/ scenarioOnly
    \/ scenarioTodo
    \/ RunCallerCallback
    \/ RunTodoCallback
SpecScenario == InitScenario /\ [][NextScenario]_vars

\* scenario and one of its modifiers called with the same description and the
\* same arguments
ModifierEntryPoints == {"scenario.skip", "scenario.only", "scenario.todo"}
InitScenarioPair ==
    /\ script \in {<<Call("scenario", d, a[1], a[2], <<>>), Call(ep, d, a[1], a[2], <<>>)>> :
                        ep \in ModifierEntryPoints, d \in Descriptions, a \in ScenarioArgs}
    /\ NoCalls
NextScenarioPair ==
    \/ scenario
    \/ scenarioSkip
    \/ scenarioOnly
    \/ scenarioTodo
SpecScenarioPair == InitScenarioPair /\ [][NextScenarioPair]_vars

\* a feature whose function declares nothing, or one scenario
FeatureBodies ==
    {<<>>} \cup
    {<<Call(ep, <<"a">>, Function("fnOk"), Undefined, <<>>)>> : ep \in ScenarioEntryPoints}
FeatureCalls ==
    {Call("feature", d, Function(f), Undefined, <<>>) : d \in Descriptions, f \in Fns}
    \cup {WithBody("feature", d, b) : d \in Descriptions, b \in FeatureBodies}

InitFeature == script \in {<<c>> : c \in FeatureCalls} /\ NoCalls
NextFeature ==
    \/ feature
    \/ scenario
    \/ scenarioSkip
    \/ scenarioOnly
    \/ scenarioTodo
SpecFeature == InitFeature /\ [][NextFeature]_vars

(* -------------------------- scenario outline -------------------------- *)
\* an example record is its entries in the order Object.entries yields them;
\* a field value is a number or a string
Num(n) == [t |-> "number", n |-> n, s |-> <<>>]
Str(x) == [t |-> "string", n |-> 0, s |-> x]
Entry(k, v) == [key |-> k, val |-> v]

Digit == <<"0", "1", "2", "3", "4", "5", "6", "7", "8", "9">>

\* the decimal digits of a non-negative integer
RECURSIVE NatToString(_)
NatToString(n) ==
    IF n < 10 THEN <<Digit[n + 1]>>
    ELSE NatToString(n \div 10) \o <<Digit[(n % 10) + 1]>>

\* `${v}`: a number as its decimal digits, a string as itself
valueToString(v) == IF v.t = "number" THEN NatToString(v.n) ELSE v.s

\* the rendering with the fields of the record taken last to first
RECURSIVE testNameReversed(_)
testNameReversed(example) ==
    IF example = <<>> THEN <<>>
    ELSE LET e == example[Len(example)]
             rest == SubSeq(example, 1, Len(example) - 1)
         IN e.key \o <<"=">> \o valueToString(e.val)
            \o (IF rest = <<>> THEN <<>> ELSE <<",", " ">> \o testNameReversed(rest))

\* Object.entries(example).map(([k, v]) => `${k}=${v}`).join(', ')
testName(example) ==
    join([i \in 1..Len(example) |->
            example[i].key \o <<"=">> \o valueToString(example[i].val)],
         <<",", " ">>)

\* test(`Scenario Outline: ${title} | ${testName}`, <callback>), for the i-th
\* example of the list
outlineRegistration(title, examples, i, cb, by) ==
    HostCall("test", OutlineLead \o title \o OutlineBar \o testName(examples[i]), cb, by)

\* every callback reading the one loop variable after the loop has ended
boundExampleIsTheLast(examples, i) == examples[Len(examples)]

\* for (const example of examples): the example the i-th callback closes over
boundExample(examples, i) == examples[i]

\* the expansion stopping one example short
outlineLoopDropsLast(n) == 1..(n - 1)

\* for (const example of examples): the positions visited, each once, in order
outlineLoop(n) == 1..n

\* an expansion that registers one example, has its test run, and only then
\* goes on to the next example
scenarioOutlineOneExampleAtATime ==
    /\ Next1("scenarioOutline")
    /\ LET c == Head(script)
           n == IF c.examples = <<>> THEN 0 ELSE 1
           regs == [i \in outlineLoop(n) |->
                      outlineRegistration(c.description, c.examples, i,
                          OutlineCallback(c.a2.fn, boundExample(c.examples, i)),
                          Len(calls) + 1)]
       IN /\ Record("undefined", regs, "none")
          /\ runs' = IF n = 0 THEN runs
                     ELSE Append(runs, Run(Len(host) + 1, c.a2.fn, c.examples[1],
                                           NoContext, FALSE))
          /\ script' = IF Len(c.examples) <= 1 THEN Tail(script)
                       ELSE <<[c EXCEPT !.examples = Tail(c.examples)]>> \o Tail(script)

\* the expansion falling back to one empty example when the list is empty
scenarioOutlineDefaultsToOneExample ==
    /\ Next1("scenarioOutline")
    /\ LET c == Head(script)
           examples == IF c.examples = <<>> THEN <<NoExample>> ELSE c.examples
           regs == [i \in outlineLoop(Len(examples)) |->
                      outlineRegistration(c.description, examples, i,
                          OutlineCallback(c.a2.fn, examples[i]), Len(calls) + 1)]
       IN Finish("undefined", regs, "none")
    /\ UNCHANGED runs

\* the expansion skipping every example whose title the host already holds
scenarioOutlineDeduplicates ==
    /\ Next1("scenarioOutline")
    /\ LET c == Head(script)
           regs == [i \in outlineLoop(Len(c.examples)) |->
                      outlineRegistration(c.description, c.examples, i,
                          OutlineCallback(c.a2.fn, c.examples[i]), Len(calls) + 1)]
           fresh == SelectSeq(regs, LAMBDA h : \A k \in DOMAIN host : host[k].title # h.title)
       IN Finish("undefined", fresh, "none")
    /\ UNCHANGED runs

\* scenarioOutline(title, examples, fn): one registration per example, in
\* list order, all within the one call; nothing is returned
scenarioOutline ==
    /\ Next1("scenarioOutline")
    /\ LET c == Head(script)
           regs == [i \in outlineLoop(Len(c.examples)) |->
                      outlineRegistration(c.description, c.examples, i,
                          OutlineCallback(c.a2.fn, boundExample(c.examples, i)), Len(calls) + 1)]
       IN Finish("undefined", regs, "none")
    /\ UNCHANGED runs

\* scenarioOutlineWithContext(title, examples, fn): the same expansion, with
\* callbacks that take the host's fixtures
scenarioOutlineWithContext ==
    /\ Next1("scenarioOutlineWithContext")
    /\ LET c == Head(script)
           regs == [i \in outlineLoop(Len(c.examples)) |->
                      outlineRegistration(c.description, c.examples, i,
                          OutlineContextCallback(c.a2.fn, boundExample(c.examples, i)), Len(calls) + 1)]
       IN Finish("undefined", regs, "none")
    /\ UNCHANGED runs

\* the host executes a registration of scenarioOutline:
\* async () => { await fn(example); }
RunOutlineCallback ==
    /\ script = <<>>
    /\ Len(runs) < MaxRuns
    /\ \E i \in DOMAIN host :
        /\ host[i].prim \in {"test", "only"}
        /\ host[i].cb.kind = "outline"
        /\ runs' = Append(runs, Run(i, host[i].cb.fn, host[i].cb.example, NoContext, FALSE))
    /\ UNCHANGED <<script, calls, host>>

\* the host executes a registration of scenarioOutlineWithContext:
\* async ({ page, context, browser }) => { await fn(example, { page, context, browser }); }
RunOutlineContextCallback ==
    /\ script = <<>>
    /\ Len(runs) < MaxRuns
    /\ \E i \in DOMAIN host, ctx \in Contexts :
        /\ host[i].prim \in {"test", "only"}
        /\ host[i].cb.kind = "outlineWithContext"
        /\ runs' = Append(runs, Run(i, host[i].cb.fn, host[i].cb.example,
                                     [page |-> ctx.page, context |-> ctx.context,
                                      browser |-> ctx.browser], FALSE))
    /\ UNCHANGED <<script, calls, host>>

\* the inputs: field names in an order that is not the alphabetical one, a
\* first field that is a two-digit number or a string, further fields that
\* are small numbers
FieldNames == <<<<"b">>, <<"a">>, <<"e", "x">>, <<"c">>>>
FirstValues == {Num(15), Str(<<"x">>)}
ExamplePool ==
    {<<>>} \cup
    {[i \in 1..n |-> Entry(FieldNames[i], IF i = 1 THEN v ELSE Num(i))] :
        n \in 1..MaxFields, v \in FirstValues}
ExampleLists == StrUpTo(ExamplePool, MaxExamples)
OutlineTitles == {<<>>, <<"a">>, <<" ", "a", " ">>}
OutlineCalls ==
    {Call(ep, t, Function(f), Undefined, ex) :
        ep \in {"scenarioOutline", "scenarioOutlineWithContext"},
        t \in OutlineTitles, f \in Fns, ex \in ExampleLists}

InitOutline == script \in {<<c>> : c \in OutlineCalls} /\ NoCalls
NextOutline ==
    \/ scenarioOutline
    \/ scenarioOutlineWithContext
    \/ RunOutlineCallback
    \/ RunOutlineContextCallback
SpecOutline == InitOutline /\ [][NextOutline]_vars

\* the same expansion written twice in the test source
InitOutlineTwice == script \in {<<c, c>> : c \in OutlineCalls} /\ NoCalls
SpecOutlineTwice == InitOutlineTwice /\ [][NextOutline]_vars

(* ------------------------- calls of every kind ------------------------ *)
\* a test source of MaxCalls calls, one after the other, drawn from every
\* kind of entry point: a feature with and without a scenario in it, the
\* four scenario modifiers, an expansion of two examples and of none, a
\* step with and without a step nested in it
MixedCalls ==
    {WithBody("feature", <<"a">>, <<>>),
     WithBody("feature", <<"a">>, <<Call("scenario", <<"a">>, Function("fnOk"), Undefined, <<>>)>>),
     Call("scenario", <<"a">>, Function("fnOk"), Undefined, <<>>),
     Call("scenario.skip", <<"a">>, Function("fnOk"), Undefined, <<>>),
     Call("scenario.only", <<"a">>, Options(<<<<"@", "a">>>>), Undefined, <<>>),
     Call("scenario.todo", <<"a">>, Undefined, Undefined, <<>>),
     Call("scenarioOutline", <<"a">>, Function("fnOk"), Undefined,
          <<<<Entry(<<"b">>, Num(15))>>, <<Entry(<<"b">>, Str(<<"x">>))>>>>),
     Call("scenarioOutline", <<"a">>, Function("fnOk"), Undefined, <<>>),
     Call("given", <<"a">>, Function("fnOk"), Undefined, <<>>),
     WithBody("given", <<"a">>, <<Call("and", <<"a", "a">>, Function("fnOk"), Undefined, <<>>)>>)}

InitMixed == script \in [1..MaxCalls -> MixedCalls] /\ NoCalls
NextMixed ==
    \/ feature
    \/ scenario
    \/ scenarioSkip
    \/ scenarioOnly
    \/ scenarioTodo
    \/ scenarioOutline
    \/ given
    \/ and
SpecMixed == InitMixed /\ [][NextMixed]_vars

(* ============================= properties ============================= *)
IsPrefix(p, s) == Len(p) <= Len(s) /\ SubSeq(s, 1, Len(p)) = p
IsSuffix(p, s) == Len(p) <= Len(s) /\ SubSeq(s, Len(s) - Len(p) + 1, Len(s)) = p
Contains(p, s) == \E k \in 0..(Len(s) - Len(p)) : SubSeq(s, k + 1, k + Len(p)) = p

\* what the host was handed by the i-th call, in order
HostOf(i) == SelectSeq(host, LAMBDA h : h.by = i)

\* the options record a scenario call carries: the third argument after a
\* function, the second argument otherwise
CarriedOptions(req) == IF req.a2.type = "function" THEN req.a3 ELSE req.a2
CarriesTags(req) ==
    CarriedOptions(req).type = "object" /\ CarriedOptions(req).hasTags

\* t is d without its leading and trailing whitespace: d is t between two
\* runs of whitespace, and t neither begins nor ends with whitespace
IsTrimOf(t, d) ==
    \E i, j \in 0..Len(d) :
        /\ i + j <= Len(d)
        /\ \A k \in 1..i : d[k] \in WhiteSpace
        /\ \A k \in (Len(d) - j + 1)..Len(d) : d[k] \in WhiteSpace
        /\ t = SubSeq(d, i + 1, Len(d) - j)
        /\ t # <<>> => (t[1] \notin WhiteSpace /\ t[Len(t)] \notin WhiteSpace)

ModifierOf(ep) ==
    CASE ep = "scenario" -> "none"
      [] ep = "scenario.skip" -> "skip"
      [] ep = "scenario.only" -> "only"
      [] ep = "scenario.todo" -> "todo"

StepKeyword(ep) ==
    CASE ep = "given" -> <<"G", "i", "v", "e", "n">>
      [] ep = "when" -> <<"W", "h", "e", "n">>
      [] ep = "then" -> <<"T", "h", "e", "n">>
      [] ep = "and" -> <<"A", "n", "d">>
      [] ep = "but" -> <<"B", "u", "t">>

\* C1: every call of given/when/then/and/but hands the host step primitive
\* exactly the title K + " " + trim(D): the keyword of the entry point, one
\* space, and the description without its leading and trailing whitespace,
\* its inner characters unchanged
C1_StepTitleIsKeywordAndTrimmedDescription ==
    \A i \in DOMAIN calls :
        calls[i].req.ep \in StepEntryPoints =>
            /\ Len(HostOf(i)) = 1
            /\ HostOf(i)[1].prim = "step"
            /\ \E t \in StrUpTo(DescChars, Len(calls[i].req.description)) :
                /\ IsTrimOf(t, calls[i].req.description)
                /\ HostOf(i)[1].title = StepKeyword(calls[i].req.ep) \o <<" ">> \o t

\* a Given step whose description has whitespace at both ends was handed over
C1_Witness ==
    \E i \in DOMAIN calls :
        /\ calls[i].req.ep = "given"
        /\ calls[i].req.description = <<" ", "a", " ">>
        /\ HostOf(i)[1].title = <<"G", "i", "v", "e", "n", " ", "a">>

\* C2: a scenario call whose options carry a tag list T with at least one
\* element registers a title that ends in " - Tags: " + T.join(" ")
C2_TitleEndsWithTagSuffix ==
    \A i \in DOMAIN calls :
        (/\ calls[i].req.ep \in ScenarioEntryPoints
         /\ CarriesTags(calls[i].req)
         /\ Len(CarriedOptions(calls[i].req).tags) >= 1) =>
            /\ Len(HostOf(i)) = 1
            /\ IsSuffix(<<" ", "-", " ", "T", "a", "g", "s", ":", " ">>
                            \o join(CarriedOptions(calls[i].req).tags, <<" ">>),
                        HostOf(i)[1].title)

\* C3: a scenario call with no options, with options that have no tags field,
\* or with an empty tag list registers the title of the same call made with
\* no options at all, and that title holds no " - Tags:" text
C3_NoTagSuffixWithoutTags ==
    \A i \in DOMAIN calls :
        (/\ calls[i].req.ep \in ScenarioEntryPoints
         /\ (CarriesTags(calls[i].req) => CarriedOptions(calls[i].req).tags = <<>>)) =>
            /\ Len(HostOf(i)) = 1
            /\ ~Contains(<<" ", "-", " ", "T", "a", "g", "s", ":">>, HostOf(i)[1].title)
            /\ HostOf(i)[1].title =
                    makeScenario(ModifierOf(calls[i].req.ep), calls[i].req.description,
                                 Undefined, Undefined, i).title

\* C4: scenario.skip(description, fn) registers a title that begins with
\* "[SKIPPED] Scenario: "
C4_SkipTitlePrefix ==
    \A i \in DOMAIN calls :
        (calls[i].req.ep = "scenario.skip" /\ calls[i].req.a2.type = "function") =>
            /\ Len(HostOf(i)) = 1
            /\ IsPrefix(<<"[", "S", "K", "I", "P", "P", "E", "D", "]", " ",
                          "S", "c", "e", "n", "a", "r", "i", "o", ":", " ">>,
                        HostOf(i)[1].title)

\* C5: scenario.skip(description, fn) makes exactly one host call, to the
\* skip primitive and to no other, handing over fn without invoking it; the
\* call does the same whether or not fn would throw
C5_SkipRegistersOnceWithoutInvoking ==
    \A i \in DOMAIN calls :
        (calls[i].req.ep = "scenario.skip" /\ calls[i].req.a2.type = "function") =>
            /\ calls[i].made = 1
            /\ Len(HostOf(i)) = 1
            /\ HostOf(i)[1].prim = "skip"
            /\ HostOf(i)[1].cb = CallerCallback(calls[i].req.a2.fn)
            /\ \A k \in DOMAIN runs : host[runs[k].reg].by # i

\* scenario.skip was called with a function that would throw, and registered
C5_Witness ==
    \E i \in DOMAIN calls :
        /\ calls[i].req.ep = "scenario.skip"
        /\ calls[i].req.a2 = Function("fnThrows")
        /\ HostOf(i)[1].prim = "skip"
        /\ runs = <<>>

\* C6: scenario.only(description, fn) registers a title that begins with
\* "[ONLY] Scenario: "
C6_OnlyTitlePrefix ==
    \A i \in DOMAIN calls :
        (calls[i].req.ep = "scenario.only" /\ calls[i].req.a2.type = "function") =>
            /\ Len(HostOf(i)) = 1
            /\ IsPrefix(<<"[", "O", "N", "L", "Y", "]", " ",
                          "S", "c", "e", "n", "a", "r", "i", "o", ":", " ">>,
                        HostOf(i)[1].title)

\* C7: scenario.todo(description) registers a title that begins with
\* "[TODO] Scenario: "
C7_TodoTitlePrefix ==
    \A i \in DOMAIN calls :
        calls[i].req.ep = "scenario.todo" =>
            /\ Len(HostOf(i)) = 1
            /\ IsPrefix(<<"[", "T", "O", "D", "O", "]", " ",
                          "S", "c", "e", "n", "a", "r", "i", "o", ":", " ">>,
                        HostOf(i)[1].title)

\* C8: a function passed to scenario.todo is never invoked: the callback the
\* host is handed is the one this layer builds, it holds no reference to the
\* caller's function, and no execution of the registered test invokes it
C8_TodoNeverInvokesCallerFn ==
    \A i \in DOMAIN calls :
        (calls[i].req.ep = "scenario.todo" /\ calls[i].req.a2.type = "function") =>
            /\ Len(HostOf(i)) = 1
            /\ HostOf(i)[1].cb.kind = "todo"
            /\ HostOf(i)[1].cb.fn # calls[i].req.a2.fn
            /\ \A k \in DOMAIN runs :
                host[runs[k].reg].by = i => runs[k].fn # calls[i].req.a2.fn

\* the host has executed a test that scenario.todo registered from a call
\* that passed a function
C8_Witness ==
    \E i \in DOMAIN calls, k \in DOMAIN runs :
        /\ calls[i].req.ep = "scenario.todo"
        /\ calls[i].req.a2.type = "function"
        /\ host[runs[k].reg].by = i
        /\ runs[k].fixme

OutlineEntryPoints == {"scenarioOutline", "scenarioOutlineWithContext"}

\* field=value for every field of the record, first field first, with ", "
\* between two fields
RECURSIVE FieldRendering(_)
FieldRendering(example) ==
    IF example = <<>> THEN <<>>
    ELSE Head(example).key \o <<"=">> \o valueToString(Head(example).val)
         \o (IF Len(example) = 1 THEN <<>>
             ELSE <<",", " ">> \o FieldRendering(Tail(example)))

\* C9: one call of the outline expansion with N examples makes exactly N
\* host registrations, and the k-th of them is the one of the k-th example:
\* its callback is bound to that example and its title ends in that
\* example's rendering
C9_OneRegistrationPerExampleInOrder ==
    \A i \in DOMAIN calls :
        calls[i].req.ep \in OutlineEntryPoints =>
            /\ calls[i].made = Len(calls[i].req.examples)
            /\ Len(HostOf(i)) = Len(calls[i].req.examples)
            /\ \A k \in DOMAIN calls[i].req.examples :
                /\ HostOf(i)[k].prim = "test"
                /\ HostOf(i)[k].cb.example = calls[i].req.examples[k]
                /\ IsSuffix(<<" ", "|", " ">> \o FieldRendering(calls[i].req.examples[k]),
                            HostOf(i)[k].title)

\* an expansion of two different examples has made its two registrations
C9_Witness ==
    \E i \in DOMAIN calls :
        /\ calls[i].req.ep = "scenarioOutline"
        /\ Len(calls[i].req.examples) = 2
        /\ calls[i].req.examples[1] # calls[i].req.examples[2]
        /\ Len(HostOf(i)) = 2
        /\ HostOf(i)[1].title # HostOf(i)[2].title

\* C10: the title registered for an example is "Scenario Outline: " + title
\* + " | " + rendering, the rendering being the record's fields as
\* field=value in the record's own order, joined with ", "
C10_OutlineTitle ==
    \A i \in DOMAIN calls :
        calls[i].req.ep \in OutlineEntryPoints =>
            \A k \in DOMAIN calls[i].req.examples :
                /\ k \in DOMAIN HostOf(i)
                /\ HostOf(i)[k].title =
                    <<"S", "c", "e", "n", "a", "r", "i", "o", " ", "O", "u", "t", "l", "i", "n", "e", ":", " ">>
                    \o calls[i].req.description \o <<" ", "|", " ">>
                    \o FieldRendering(calls[i].req.examples[k])

\* title "a" and the example {b: 15, a: 2} were registered as
\* "Scenario Outline: a | b=15, a=2"
C10_Witness ==
    \E i \in DOMAIN calls, k \in DOMAIN host :
        /\ calls[i].req.ep \in OutlineEntryPoints
        /\ calls[i].req.description = <<"a">>
        /\ host[k].by = i
        /\ host[k].cb.example = <<Entry(<<"b">>, Num(15)), Entry(<<"a">>, Num(2))>>
        /\ host[k].title = 
            <<"S", "c", "e", "n", "a", "r", "i", "o", " ", "O", "u", "t", "l", "i", "n", "e", ":", " ", "a", " ", "|", " ", "b", "=", "1", "5", ",", " ", "a", "=", "2">>

\* the titles the host was handed by the i-th call, in order
TitlesOf(i) == [k \in DOMAIN HostOf(i) |-> HostOf(i)[k].title]

\* C11: the outline expansion of an empty example list makes no host
\* registration, leads to no invocation of the caller's function, and
\* returns normally
C11_EmptyListRegistersNothing ==
    \A i \in DOMAIN calls :
        (calls[i].req.ep \in OutlineEntryPoints /\ calls[i].req.examples = <<>>) =>
            /\ calls[i].made = 0
            /\ HostOf(i) = <<>>
            /\ calls[i].ret = "undefined"
            /\ \A k \in DOMAIN runs : host[runs[k].reg].by # i

\* an expansion of the empty list has returned
C11_Witness ==
    \E i \in DOMAIN calls :
        /\ calls[i].req.ep = "scenarioOutline"
        /\ calls[i].req.examples = <<>>
        /\ script = <<>>
        /\ host = <<>>

\* C12: the outline expansion never deduplicates: two calls with the same
\* title and the same N examples make N registrations each, 2N together,
\* the second call's titles being the first call's in the same order, and
\* two examples of one list that render alike each have their registration
C12_NoDeduplication ==
    \A i, j \in DOMAIN calls :
        (/\ i < j
         /\ calls[i].req.ep \in OutlineEntryPoints
         /\ calls[j].req.ep \in OutlineEntryPoints
         /\ calls[i].req.description = calls[j].req.description
         /\ calls[i].req.examples = calls[j].req.examples) =>
            /\ Len(HostOf(i)) = Len(calls[i].req.examples)
            /\ Len(HostOf(j)) = Len(calls[i].req.examples)
            /\ TitlesOf(j) = TitlesOf(i)
            /\ Cardinality({k \in DOMAIN host : host[k].by \in {i, j}})
                 = 2 * Len(calls[i].req.examples)

\* the same expansion of a list holding the same example twice was made
\* twice, and the host holds four registrations with one title
C12_Witness ==
    \E i, j \in DOMAIN calls :
        /\ i < j
        /\ calls[i].req = calls[j].req
        /\ Len(calls[i].req.examples) = 2
        /\ calls[i].req.examples[1] = calls[i].req.examples[2]
        /\ calls[i].req.examples[1] # <<>>
        /\ Len(host) = 4
        /\ \A k \in DOMAIN host : host[k].title = host[1].title

\* C13: with steps nested in the functions of steps, every step call hands
\* the host the title of its own keyword and its own trimmed description,
\* as its own host call, whatever was called before it or around it: the
\* title of an outer step stays what it was once the inner step is called,
\* and a later sibling's title holds nothing of the steps before it
C13_NestedStepsKeepTheirOwnTitles ==
    \A i \in DOMAIN calls :
        calls[i].req.ep \in StepEntryPoints =>
            /\ i \in DOMAIN host
            /\ host[i].by = i
            /\ host[i].prim = "step"
            /\ \E t \in StrUpTo(DescChars, Len(calls[i].req.description)) :
                /\ IsTrimOf(t, calls[i].req.description)
                /\ host[i].title = StepKeyword(calls[i].req.ep) \o <<" ">> \o t

\* an outer step, the step its function calls and a later sibling have all
\* been handed to the host, the three with different titles
C13_Witness ==
    /\ Len(calls) = 3
    /\ script = <<>>
    /\ calls[1].req.body = <<calls[2].req>>
    /\ calls[3].req.body = <<>>
    /\ host[1].title = <<"G", "i", "v", "e", "n", " ", "a">>
    /\ host[2].title = <<"A", "n", "d", " ", "a", "a">>
    /\ host[3].title = <<"A", "n", "d", " ", "a">>

\* C14: a step entry point returns exactly what the host step primitive
\* handed back; when the step's function fails, that is the rejection
\* carrying the function's own error, not caught and not replaced
C14_StepReturnsHostResult ==
    \A i \in DOMAIN calls :
        calls[i].req.ep \in StepEntryPoints =>
            /\ calls[i].ret = calls[i].hostRet
            /\ calls[i].req.a2.fn = "fnThrows" => calls[i].ret = Rejection
            /\ calls[i].req.a2.fn = "fnOk" => calls[i].ret \in HostResults

\* a step whose function throws has returned the host's rejected promise
C14_Witness ==
    \E i \in DOMAIN calls :
        /\ calls[i].req.ep = "then"
        /\ calls[i].req.a2.fn = "fnThrows"
        /\ calls[i].ret = Rejection
        /\ runs # <<>>

MarkerOf(ep) ==
    CASE ep = "scenario" -> <<>>
      [] ep = "scenario.skip" -> <<"[", "S", "K", "I", "P", "P", "E", "D", "]", " ">>
      [] ep = "scenario.only" -> <<"[", "O", "N", "L", "Y", "]", " ">>
      [] ep = "scenario.todo" -> <<"[", "T", "O", "D", "O", "]", " ">>

PrimitiveOf(ep) ==
    CASE ep = "scenario" -> "test"
      [] ep = "scenario.skip" -> "skip"
      [] ep = "scenario.only" -> "only"
      [] ep = "scenario.todo" -> "test"

C17_DescriptionTrimmedBeforeTagSuffix ==
    \A i \in DOMAIN calls :
        (/\ calls[i].req.ep \in ScenarioEntryPoints
         /\ CarriesTags(calls[i].req)
         /\ Len(CarriedOptions(calls[i].req).tags) >= 1) =>
            /\ Len(HostOf(i)) = 1
            /\ HostOf(i)[1].title =
                    MarkerOf(calls[i].req.ep)
                    \o label(KwScenario, calls[i].req.description)
                    \o <<" ", "-", " ", "T", "a", "g", "s", ":", " ">>
                    \o join(CarriedOptions(calls[i].req).tags, <<" ">>)

\* C18: when scenario and a modifier of it were called with the same
\* description and the same options, the title of the modifier's
\* registration is its marker followed by the title of scenario's
\* registration, unchanged to its end
C18_ModifierTitleIsMarkerAndNormalTitle ==
    \A i, j \in DOMAIN calls :
        (/\ calls[i].req.ep = "scenario"
         /\ calls[j].req.ep \in ModifierEntryPoints
         /\ calls[j].req.description = calls[i].req.description
         /\ CarriedOptions(calls[j].req) = CarriedOptions(calls[i].req)) =>
            /\ Len(HostOf(i)) = 1
            /\ Len(HostOf(j)) = 1
            /\ HostOf(j)[1].title = MarkerOf(calls[j].req.ep) \o HostOf(i)[1].title

\* scenario and scenario.only were both called with a description and two
\* tags, and both are registered
C18_Witness ==
    /\ Len(calls) = 2
    /\ calls[1].req.ep = "scenario"
    /\ calls[2].req.ep = "scenario.only"
    /\ calls[1].req.description = <<" ", "a">>
    /\ CarriesTags(calls[1].req)
    /\ Len(CarriedOptions(calls[1].req).tags) = 2
    /\ CarriedOptions(calls[2].req) = CarriedOptions(calls[1].req)
    /\ Len(host) = 2

\* C19: a scenario call whose second argument is a function hands that
\* function on as the callback (scenario.todo apart, which hands on its own)
\* and reads its options from the third argument; a call whose second
\* argument is not a function hands on undefined and reads its options from
\* the second argument, whatever the third is
C19_ArgumentShapeInspection ==
    \A i \in DOMAIN calls :
        calls[i].req.ep \in ScenarioEntryPoints =>
            LET req == calls[i].req
                h == HostOf(i)[1]
            IN /\ Len(HostOf(i)) = 1
               /\ req.a2.type = "function" =>
                    /\ req.ep # "scenario.todo" => h.cb = CallerCallback(req.a2.fn)
                    /\ h.title = MarkerOf(req.ep) \o scenarioTitle(req.description, req.a3)
               /\ req.a2.type # "function" =>
                    /\ req.ep # "scenario.todo" => h.cb = UndefinedCallback
                    /\ h.title = MarkerOf(req.ep) \o scenarioTitle(req.description, req.a2)

\* a call with tagged options in the second place and other options in the
\* third was registered with the tags of the second
C19_Witness ==
    \E i \in DOMAIN calls :
        /\ calls[i].req.ep = "scenario"
        /\ calls[i].req.a2 = Options(<<<<"@", "a">>>>)
        /\ calls[i].req.a3 = Options(<<<<"@", "b">>>>)
        /\ HostOf(i)[1].cb = UndefinedCallback
        /\ IsSuffix(<<"@", "a">>, HostOf(i)[1].title)

\* C20: scenario, scenario.skip and scenario.only called with no function in
\* the second place return what the host's registration returned, after
\* exactly one registration call with the synthesized title and undefined
\* as the callback
C20_MissingFunctionIsHandedOnAsUndefined ==
    \A i \in DOMAIN calls :
        (/\ calls[i].req.ep \in {"scenario", "scenario.skip", "scenario.only"}
         /\ calls[i].req.a2.type # "function") =>
            /\ calls[i].made = 1
            /\ calls[i].ret \in HostResults
            /\ calls[i].ret = calls[i].hostRet
            /\ Len(HostOf(i)) = 1
            /\ HostOf(i)[1].prim = PrimitiveOf(calls[i].req.ep)
            /\ HostOf(i)[1].cb = UndefinedCallback
            /\ IsPrefix(MarkerOf(calls[i].req.ep)
                            \o <<"S", "c", "e", "n", "a", "r", "i", "o">>,
                        HostOf(i)[1].title)

\* scenario.skip was called with the description alone, and registered
C20_Witness ==
    \E i \in DOMAIN calls :
        /\ calls[i].req.ep = "scenario.skip"
        /\ calls[i].req.a2 = Undefined
        /\ calls[i].req.a3 = Undefined
        /\ HostOf(i)[1].prim = "skip"
        /\ HostOf(i)[1].cb = UndefinedCallback

\* C21: for every modifier, what a scenario call returns is the value the
\* host registration primitive it called returned, unmodified
C21_ScenarioReturnsHostResult ==
    \A i \in DOMAIN calls :
        calls[i].req.ep \in ScenarioEntryPoints =>
            /\ calls[i].made = 1
            /\ calls[i].hostRet \in HostResults
            /\ calls[i].ret = calls[i].hostRet

\* scenario.todo returned the second of the host's results
C21_Witness ==
    \E i \in DOMAIN calls :
        /\ calls[i].req.ep = "scenario.todo"
        /\ calls[i].hostRet = "r2"
        /\ calls[i].ret = "r2"

\* C22: scenario, scenario.skip and scenario.only called with a function
\* hand the host that function itself as the callback; when the host runs
\* the registration, it is the caller's function that runs, once per run of
\* the host, with the context the host passed and with nothing done around it
C22_CallerFunctionIsTheCallback ==
    \A i \in DOMAIN calls :
        (/\ calls[i].req.ep \in {"scenario", "scenario.skip", "scenario.only"}
         /\ calls[i].req.a2.type = "function") =>
            /\ Len(HostOf(i)) = 1
            /\ HostOf(i)[1].cb = CallerCallback(calls[i].req.a2.fn)
            /\ \A k \in DOMAIN runs :
                host[runs[k].reg].by = i =>
                    /\ runs[k].fn = calls[i].req.a2.fn
                    /\ runs[k].ctx \in Contexts
                    /\ runs[k].example = NoExample
                    /\ ~runs[k].fixme

\* the host ran the registration of a scenario.only call and the caller's
\* function received the host's fixtures, its second page among them
C22_Witness ==
    \E i \in DOMAIN calls, k \in DOMAIN runs :
        /\ calls[i].req.ep = "scenario.only"
        /\ calls[i].req.a2 = Function("fnOk")
        /\ host[runs[k].reg].by = i
        /\ runs[k].fn = "fnOk"
        /\ runs[k].ctx \in Contexts
        /\ runs[k].ctx.page = "page2"

\* C23: whenever the host runs the callback scenario.todo registered, for
\* every description and argument shape, the run signals the host's fixme
\* marker and does nothing else: no function of the caller is invoked and no
\* host call is made
C23_TodoCallbackOnlySignalsFixme ==
    \A i \in DOMAIN calls :
        calls[i].req.ep = "scenario.todo" =>
            /\ Len(HostOf(i)) = 1
            /\ HostOf(i)[1].cb = TodoCallback
            /\ \A k \in DOMAIN runs :
                host[runs[k].reg].by = i =>
                    /\ runs[k].fixme
                    /\ runs[k].fn = "none"
                    /\ runs[k].example = NoExample
                    /\ Len(host) = Len(calls)

\* the host ran the callback of a scenario.todo call that was given a
\* function that throws
C23_Witness ==
    \E i \in DOMAIN calls, k \in DOMAIN runs :
        /\ calls[i].req.ep = "scenario.todo"
        /\ calls[i].req.a2 = Function("fnThrows")
        /\ host[runs[k].reg].by = i
        /\ runs[k].fixme

\* C24: scenario.todo(description, {tags: T}) with T not empty, the options
\* in the place of the function, registers the title "[TODO] " followed by
\* the title scenario(description, fn, {tags: T}) registers, tag suffix
\* included
C24_TodoWithOptionsAloneIsTagged ==
    \A i \in DOMAIN calls :
        (/\ calls[i].req.ep = "scenario.todo"
         /\ calls[i].req.a2.type = "object"
         /\ calls[i].req.a2.hasTags
         /\ calls[i].req.a2.tags # <<>>) =>
            /\ Len(HostOf(i)) = 1
            /\ HostOf(i)[1].prim = "test"
            /\ HostOf(i)[1].title =
                    <<"[", "T", "O", "D", "O", "]", " ">>
                    \o makeScenario("none", calls[i].req.description,
                                    Function("fnOk"), calls[i].req.a2, i).title
            /\ Contains(<<" ", "-", " ", "T", "a", "g", "s", ":", " ", "@">>,
                        HostOf(i)[1].title)

\* scenario.todo('a', {tags: ['@a', '@b']}) was registered with both tags
C24_Witness ==
    \E i \in DOMAIN calls :
        /\ calls[i].req.ep = "scenario.todo"
        /\ calls[i].req.description = <<"a">>
        /\ calls[i].req.a2 = Options(<<<<"@", "a">>, <<"@", "b">>>>)
        /\ calls[i].req.a3 = Undefined
        /\ IsPrefix(<<"[", "T", "O", "D", "O", "]", " ", "S">>, HostOf(i)[1].title)
        /\ IsSuffix(<<"a", " ", "-", " ", "T", "a", "g", "s", ":", " ",
                      "@", "a", " ", "@", "b">>, HostOf(i)[1].title)

\* the place of the r-th host call among the host calls of the same call
PositionOf(r) == Cardinality({j \in 1..r : host[j].by = host[r].by})

\* C25: when the host runs the p-th registration of an outline expansion,
\* the caller's function is invoked, once for that run, with the p-th
\* example of the list and with no other; scenarioOutline passes it nothing
\* else, scenarioOutlineWithContext passes it the page, context and browser
\* the host supplied to the registered callback
C25_CallbackInvokesFnWithItsOwnExample ==
    \A k \in DOMAIN runs :
        LET r == runs[k].reg
            i == host[r].by
        IN calls[i].req.ep \in OutlineEntryPoints =>
            /\ PositionOf(r) \in DOMAIN calls[i].req.examples
            /\ runs[k].fn = calls[i].req.a2.fn
            /\ runs[k].example = calls[i].req.examples[PositionOf(r)]
            /\ ~runs[k].fixme
            /\ calls[i].req.ep = "scenarioOutline" => runs[k].ctx = NoContext
            /\ calls[i].req.ep = "scenarioOutlineWithContext" => runs[k].ctx \in Contexts

\* the host ran the first registration of a context-aware expansion of two
\* different examples: the function received the first example and the
\* host's second page
C25_Witness ==
    \E k \in DOMAIN runs :
        LET r == runs[k].reg
            i == host[r].by
        IN /\ calls[i].req.ep = "scenarioOutlineWithContext"
           /\ Len(calls[i].req.examples) = 2
           /\ calls[i].req.examples[1] # calls[i].req.examples[2]
           /\ PositionOf(r) = 1
           /\ runs[k].example = calls[i].req.examples[1]
           /\ runs[k].ctx.page = "page2"

ExpectedHostCalls(req) ==
    IF req.ep \in OutlineEntryPoints THEN Len(req.examples) ELSE 1

\* C27: after any sequence of calls of feature, the scenario modifiers,
\* scenarioOutline and the step functions, the host holds the calls of this
\* layer in the order the calls were made: the host calls of an earlier call
\* all stand before those of a later one, every call made has all of its
\* host calls in place (none dropped, none held back for later), and an
\* expansion's registrations stand in the order of its examples
C27_HostCallsInCallOrder ==
    /\ \A k \in DOMAIN host : host[k].by \in DOMAIN calls
    /\ \A k, l \in DOMAIN host : k < l => host[k].by <= host[l].by
    /\ \A i \in DOMAIN calls :
        /\ calls[i].made = ExpectedHostCalls(calls[i].req)
        /\ Len(HostOf(i)) = ExpectedHostCalls(calls[i].req)
        /\ calls[i].req.ep \in OutlineEntryPoints =>
            \A k \in DOMAIN HostOf(i) :
                HostOf(i)[k].cb.example = calls[i].req.examples[k]

\* a feature with a scenario in it, then an expansion of two examples, then
\* a skipped scenario: the host holds describe, test, test, test, skip
C27_Witness ==
    /\ Len(calls) = 4
    /\ calls[1].req.ep = "feature"
    /\ calls[2].req.ep = "scenario"
    /\ calls[3].req.ep = "scenarioOutline"
    /\ calls[4].req.ep = "scenario.skip"
    /\ Len(host) = 5
    /\ host[1].prim = "describe"
    /\ host[2].prim = "test"
    /\ host[3].cb.example = <<Entry(<<"b">>, Num(15))>>
    /\ host[4].cb.example = <<Entry(<<"b">>, Str(<<"x">>))>>
    /\ host[5].prim = "skip"

\* what the host was handed by the i-th call, apart from the call's place
\* in the history
ForwardedBy(i) ==
    [k \in DOMAIN HostOf(i) |->
        [prim |-> HostOf(i)[k].prim, title |-> HostOf(i)[k].title, cb |-> HostOf(i)[k].cb]]

HostPrimitiveOf(ep) ==
    CASE ep = "step" -> "step"
      [] ep = "before" -> "beforeEach"
      [] ep = "after" -> "afterEach"
      [] ep = "beforeAll" -> "beforeAll"
      [] ep = "afterAll" -> "afterAll"

\* C29: step, before, after, beforeAll and afterAll each make exactly one
\* host call, to step, beforeEach, afterEach, beforeAll and afterAll, with
\* the description as the title, character for character (no keyword, no
\* trim), and with the caller's function as the callback; step returns what
\* the host's step primitive returned
C29_StepAndHooksPassThrough ==
    \A i \in DOMAIN calls :
        calls[i].req.ep \in HookEntryPoints \cup {"step"} =>
            /\ calls[i].made = 1
            /\ Len(HostOf(i)) = 1
            /\ HostOf(i)[1].prim = HostPrimitiveOf(calls[i].req.ep)
            /\ HostOf(i)[1].title = calls[i].req.description
            /\ HostOf(i)[1].cb = CallerCallback(calls[i].req.a2.fn)
            /\ calls[i].req.ep = "step" => calls[i].ret = calls[i].hostRet

\* afterAll and step were called with a description that has whitespace at
\* both ends, and the host holds it whole in both titles
C29_Witness ==
    /\ Len(calls) = 2
    /\ calls[1].req.ep = "afterAll"
    /\ calls[2].req.ep = "step"
    /\ calls[1].req.description = <<" ", "a", " ">>
    /\ host[1].prim = "afterAll"
    /\ host[1].title = <<" ", "a", " ">>
    /\ host[2].prim = "step"
    /\ host[2].title = <<" ", "a", " ">>
    /\ calls[2].ret = "r2"

=============================================================================
